---- MODULE Spec2Model ----
(***************************************************************************)
(* Session, routing and permission logic of the vendor portal front end.   *)
(*                                                                         *)
(* The repository carries two generations of the session service:          *)
(*   build = "class"  : class AuthService (services/authService.js, key    *)
(*                      user_data) used by the AuthProvider whose login    *)
(*                      takes the profile returned by authService.login;   *)
(*   build = "object" : the authService object (key user_info, JWT expiry  *)
(*                      check, logout that sets window.location) used by   *)
(*                      the AuthProvider that re-reads getCurrentUser().   *)
(* The model carries both; which one a bundle contains is fixed in Init.   *)
(***************************************************************************)
EXTENDS Integers, FiniteSets, Sequences, TLC

VARIABLES
  build,       \* which generation of authService/AuthProvider is bundled
  now,         \* Date.now() / 1000
  ls,          \* window.localStorage, by key
  ctxUser,     \* AuthProvider state `user` ("null" or the profile)
  ctxLoading,  \* AuthProvider state `loading`
  initPc,      \* position of initializeAuth: "mount", "validating", "done"
  loginPc,     \* position of AuthProvider.login: "idle", "token", "profile"
  loginType,   \* Login form: selected account type of the running submit
  loginTok,    \* access_token held by the running authService.login
  loginPre,    \* the store and the context user when the running login was called
  path,        \* location.pathname
  locFrom,     \* location.state.from ("null" when no state)
  flight,      \* requests awaiting their response
  logouts,     \* session clearings performed since the page was shown
  redirects,   \* navigations to /login performed since the page was shown
  saw401,      \* a 401 response was handled since the page was shown
  pageFx,      \* the mount effects of the shown page have run
  pageErr,     \* the shown page is in its local error state
  permissions, \* useEmployeePermissions state `permissions`
  permLoading, \* useEmployeePermissions state `loading`
  guard,       \* a PermissionGuard of the Employees page: props, hook state, output
  hdr,         \* token in the Authorization header of the page's latest request
  tab2         \* authService.login of a second tab on the same storage

vars == <<build, now, ls, ctxUser, ctxLoading, initPc, loginPc, loginType,
          loginTok, loginPre, path, locFrom, flight, logouts,
          redirects, saw401, pageFx, pageErr, permissions, permLoading,
          guard, hdr, tab2>>

----------------------------------------------------------------------------
(* Bounds of the model *)

MaxTime == 2         \* the clock runs 0..MaxTime
TokenTTL == 1        \* lifetime the backend gives an access token
MaxCount == 2        \* logouts and redirects are counted up to MaxCount

----------------------------------------------------------------------------
(* Values *)

Builds == {"class", "object"}

Users == {"vend", "emp", "pat"}

Role(u) ==
  CASE u = "vend" -> "vendor"
    [] u = "emp"  -> "employee"
    [] u = "pat"  -> "patient"
    [] OTHER      -> "none"

NoToken == [kind |-> "none", sub |-> "null", exp |-> 0]

Jwt(u, e) == [kind |-> "jwt", sub |-> u, exp |-> e]

TOKEN_KEY == "auth_token"

USER_KEY == IF build = "class" THEN "user_data" ELSE "user_info"

PERM_KEY == "employee_permissions"

Keys == {"auth_token", "user_data", "user_info", "employee_permissions"}

(* The four employee-management flags and one name outside them. *)
PermFlags == {"can_create_employees", "can_edit_employees",
              "can_delete_employees", "can_deactivate_employees"}

PermNames == PermFlags \cup {"can_view_reports"}

SubRoles == {"viewer", "editor", "manager"}

(* A permission object: the keys whose value is the boolean true are in   *)
(* `granted`. kind "none" is null / absent, kind "bad" is a string that    *)
(* JSON.parse rejects.                                                      *)
NoPerms == [kind |-> "none", employee_role |-> "null", user_type |-> "null",
            granted |-> {}]

BadPerms == [kind |-> "bad", employee_role |-> "null", user_type |-> "null",
             granted |-> {}]

PermObj(r, t, g) == [kind |-> "obj", employee_role |-> r, user_type |-> t,
                     granted |-> g]

(* Contents employee_permissions can have when the application starts:    *)
(* nothing, a string that does not parse, or an object whose sub-role is    *)
(* under employee_role or, without that key, under user_type.               *)
StoredPermissions ==
  {NoPerms, BadPerms}
    \cup {PermObj(r, "employee", g) : r \in SubRoles, g \in SUBSET PermFlags}
    \cup {PermObj("null", r, g) : r \in SubRoles, g \in SUBSET PermFlags}

(* The contents the session and routing behaviours are explored with. *)
SessionPermissions ==
  {NoPerms,
   PermObj("viewer", "employee", {}),
   PermObj("manager", "employee", PermFlags)}

(* The login of the second tab: where it stands and the token it got. *)
NoTab == [pc |-> "idle", tok |-> NoToken]

(* The props of a PermissionGuard; fallback tells whether one is supplied. *)
GuardProps(admin, edit, manage, hide, perm, fb, show) ==
  [requireAdmin |-> admin, requireEdit |-> edit,
   requireManageEmployees |-> manage, hideFromViewers |-> hide,
   permission |-> perm, fallback |-> fb, showLoading |-> show]

(* The defaults of the props. *)
DefaultProps == GuardProps(FALSE, FALSE, FALSE, FALSE, "null", FALSE, FALSE)

(* No guard is mounted. *)
NoGuard == [mounted |-> FALSE, props |-> DefaultProps, loading |-> TRUE,
            permissions |-> NoPerms, out |-> "none"]

(* The guards of the Employees page. *)
EmployeesGuards ==
  {GuardProps(FALSE, FALSE, FALSE, FALSE, n, FALSE, FALSE) : n \in PermFlags}

----------------------------------------------------------------------------
(* window.localStorage *)

getItem(store, k) == store[k]

setItem(store, k, v) == [store EXCEPT ![k] = v]

NullOf(k) ==
  IF k = "auth_token" THEN NoToken
  ELSE IF k = "employee_permissions" THEN NoPerms
  ELSE "null"

removeItem(store, k) == [store EXCEPT ![k] = NullOf(k)]

(* No login is running. *)
NoPre == [ls |-> [k \in Keys |-> NullOf(k)], user |-> "null"]

----------------------------------------------------------------------------
(* authService *)

getToken(store) == getItem(store, TOKEN_KEY)

(* parseJwt: the payload of a well-formed token, null otherwise. *)
parseJwt(token) == IF token.kind = "jwt" THEN token ELSE NoToken

(* A logout that removes the token and keeps the profile. *)
logout_KeepsProfile(store) == removeItem(store, TOKEN_KEY)

(* authService.logout: the storage it leaves. *)
logout(store) == removeItem(removeItem(store, TOKEN_KEY), USER_KEY)

(* The object build's logout also sets window.location.href = '/login'. *)
LogoutReloads == build = "object"

getCurrentUser(store) == getItem(store, USER_KEY)

(* isAuthenticated of the class: a token is stored. *)
isAuthenticatedClass(store) == getToken(store) # NoToken

(* isAuthenticated of the object build: a stored token whose payload       *)
(* parses and whose exp is not before the clock; a token that does not      *)
(* parse makes payload.exp throw, which is caught and answers false.        *)
isAuthenticatedObject(store, t) ==
  LET token == getToken(store) IN
    /\ token # NoToken
    /\ parseJwt(token) # NoToken
    /\ ~(parseJwt(token).exp < t)

(* The object build's isAuthenticated calls logout() on an expired token. *)
IsAuthExpiredBranch(store, t) ==
  LET token == getToken(store) IN
    /\ token # NoToken
    /\ parseJwt(token) # NoToken
    /\ parseJwt(token).exp < t

isAuthenticated(store, t) ==
  IF build = "class" THEN isAuthenticatedClass(store)
  ELSE isAuthenticatedObject(store, t)

(* Replies of GET /validate-token: 2xx with {valid: true}, 2xx with another *)
(* body, 401, and a request that never completes.                            *)
ValidateReplies == {"valid", "2xx", "401", "net"}

(* validateToken taking every answer of the server for a confirmation. *)
validateToken_AnyAnswer(reply) == reply # "net"

validateToken(reply) ==
  IF build = "class" THEN reply = "valid"
  ELSE reply \in {"valid", "2xx"}

(* getAuthHeaders falling back to a token kept outside the store. *)
getAuthHeaders_Kept(store) ==
  IF getToken(store) = NoToken THEN Jwt("vend", TokenTTL) ELSE getToken(store)

(* getAuthHeaders / the request interceptor: the token read from the store *)
(* when the request is made (NoToken: no Authorization header).             *)
getAuthHeaders(store) == getToken(store)

----------------------------------------------------------------------------
(* Routing *)

ProtectedPaths == {"/", "/products", "/management/employees",
                   "/management/patients", "/analytics"}

PublicPaths == {"/login", "/unauthorized"}

Paths == ProtectedPaths \cup PublicPaths

(* The requiredRole prop of the ProtectedRoute at p ("null": no prop). *)
RequiredRole(p) == IF p = "/analytics" THEN "vendor" ELSE "null"

isAuthenticatedCtx(user) == user # "null"

(* ProtectedRoute without its requiredRole branch. *)
ProtectedRoute_NoRoleCheck(loading, authed, user, requiredRole) ==
  IF loading THEN "loading"
  ELSE IF ~authed THEN "login"
  ELSE "children"

(* What ProtectedRoute returns. *)
ProtectedRoute(loading, authed, user, requiredRole) ==
  IF loading THEN "loading"
  ELSE IF ~authed THEN "login"
  ELSE IF requiredRole # "null" /\ Role(user) # requiredRole THEN "unauthorized"
  ELSE "children"

Outcome(p, loading, user) ==
  IF p \in ProtectedPaths
  THEN ProtectedRoute(loading, isAuthenticatedCtx(user), user, RequiredRole(p))
  ELSE "public"

(* The page component that is mounted. *)
Shown(p, loading, user) ==
  IF Outcome(p, loading, user) \in {"children", "public"} THEN p ELSE "none"

ShownNow == Shown(path, ctxLoading, ctxUser)

OutcomeNow == Outcome(path, ctxLoading, ctxUser)

----------------------------------------------------------------------------
(* Component-local state: it lives as long as the page that owns it stays  *)
(* mounted and starts afresh when another page is mounted.                  *)

locals == <<pageFx, pageErr, permissions, permLoading, guard, hdr>>

counters == <<logouts, redirects, saw401>>

LocalsFresh ==
  /\ pageFx' = FALSE
  /\ pageErr' = FALSE
  /\ permissions' = NoPerms
  /\ permLoading' = TRUE
  /\ guard' = NoGuard
  /\ hdr' = NoToken

CountersFresh ==
  /\ logouts' = 0
  /\ redirects' = 0
  /\ saw401' = FALSE

(* React re-renders after the state updates of a handler: a page that is   *)
(* replaced loses its state, and the counters restart with a protected page.*)
Rerender ==
  LET next == Shown(path', ctxLoading', ctxUser') IN
    IF next = ShownNow
    THEN UNCHANGED <<locals, counters>>
    ELSE /\ LocalsFresh
         /\ IF next \in ProtectedPaths THEN CountersFresh
            ELSE UNCHANGED counters

(* The same, for a handler that has itself counted a logout or a redirect. *)
RerenderLocals ==
  LET next == Shown(path', ctxLoading', ctxUser') IN
    IF next = ShownNow THEN UNCHANGED locals ELSE LocalsFresh

(* A full page load at p: every in-memory state starts over, the storage   *)
(* stays, in-flight requests are dropped.                                   *)
PageLoad(p) ==
  /\ path' = p
  /\ locFrom' = "null"
  /\ ctxUser' = "null"
  /\ ctxLoading' = TRUE
  /\ initPc' = "mount"
  /\ loginPc' = "idle"
  /\ loginType' = "none"
  /\ loginTok' = NoToken
  /\ loginPre' = NoPre
  /\ flight' = {}
  /\ LocalsFresh

(* Passive effects (the mount effects of AuthProvider, of the shown page   *)
(* and of <Navigate>) are flushed before any later event is handled.        *)
PagesWithEffects == {"/", "/products", "/management/employees",
                     "/management/patients"}

EffectsPending ==
  \/ initPc = "mount" /\ path # "external"
  \/ OutcomeNow \in {"login", "unauthorized"}
  \/ ShownNow \in PagesWithEffects /\ ~pageFx
  \/ guard.mounted /\ guard.loading

Settled == ~EffectsPending

(* The user acts on a page whose requests have been answered. *)
Quiet == Settled /\ flight = {}

(* Navigation, reload and logout by the user, and the passing of time, are  *)
(* taken between the asynchronous flows of the AuthProvider.                *)
UserIdle == Quiet /\ loginPc = "idle" /\ initPc # "validating"

(* A user action starts a new count of logouts and redirects. *)
UserRerender ==
  /\ CountersFresh
  /\ RerenderLocals

----------------------------------------------------------------------------
Init ==
  /\ build \in Builds
  /\ now = 0
  /\ ls \in {[k \in Keys |-> IF k = PERM_KEY THEN perms ELSE NullOf(k)] :
               perms \in SessionPermissions}
  /\ ctxUser = "null"
  /\ ctxLoading = TRUE
  /\ initPc = "mount"
  /\ loginPc = "idle"
  /\ loginType = "none"
  /\ loginTok = NoToken
  /\ loginPre = NoPre
  /\ path = "/"
  /\ locFrom = "null"
  /\ flight = {}
  /\ logouts = 0
  /\ redirects = 0
  /\ saw401 = FALSE
  /\ pageFx = FALSE
  /\ pageErr = FALSE
  /\ permissions = NoPerms
  /\ permLoading = TRUE
  /\ guard = NoGuard
  /\ hdr = NoToken
  /\ tab2 = NoTab

(* The clock advances. *)
Tick ==
  /\ UserIdle
  /\ now < MaxTime
  /\ now' = now + 1
  /\ UNCHANGED <<build, tab2, ls, ctxUser, ctxLoading, initPc, loginPc, loginType,
                 loginTok, loginPre, path, locFrom, flight,
                 locals, counters>>

----------------------------------------------------------------------------
(* AuthProvider.initializeAuth *)

(* From the mount to the await of validateToken, or to the end when        *)
(* isAuthenticated() is false.                                              *)
InitAuthStart ==
  /\ initPc = "mount"
  /\ path # "external"
  /\ IF isAuthenticated(ls, now)
     THEN /\ initPc' = "validating"
          /\ UNCHANGED <<ls, ctxUser, ctxLoading, loginPc, loginType, loginTok, loginPre,
                         path, locFrom, flight, locals, counters>>
     ELSE IF build = "object" /\ IsAuthExpiredBranch(ls, now)
     THEN \* authService.logout(): clears and loads /login
          /\ ls' = logout(ls)
          /\ initPc' = "mount"
          /\ path' = "/login"
          /\ locFrom' = "null"
          /\ ctxUser' = "null"
          /\ ctxLoading' = TRUE
          /\ loginPc' = "idle"
          /\ loginType' = "none"
          /\ loginTok' = NoToken
          /\ loginPre' = NoPre
          /\ flight' = {}
          /\ LocalsFresh
          /\ UNCHANGED counters
     ELSE /\ initPc' = "done"
          /\ ctxLoading' = FALSE
          /\ UNCHANGED <<ls, ctxUser, loginPc, loginType, loginTok, loginPre, path,
                         locFrom, flight>>
          /\ Rerender
  /\ UNCHANGED <<build, tab2, now>>

(* initializeAuth without its finally: a failed validation leaves loading  *)
(* as it is.                                                                *)
InitAuthValidated_NoFinally(reply) ==
  /\ Settled
  /\ initPc = "validating"
  /\ IF validateToken(reply)
     THEN /\ ctxUser' = getCurrentUser(ls)
          /\ ctxLoading' = FALSE
          /\ initPc' = "done"
          /\ UNCHANGED <<ls, loginPc, loginType, loginTok, loginPre, path, locFrom, flight>>
          /\ Rerender
     ELSE IF LogoutReloads
     THEN /\ ls' = logout(ls)
          /\ PageLoad("/login")
          /\ UNCHANGED counters
     ELSE /\ ls' = logout(ls)
          /\ initPc' = "done"
          /\ UNCHANGED <<ctxLoading, ctxUser, loginPc, loginType, loginTok, loginPre, path, locFrom, flight>>
          /\ Rerender
  /\ UNCHANGED <<build, tab2, now>>

(* validateToken() resolves; setUser or logout; finally setLoading(false). *)
InitAuthValidated(reply) ==
  /\ Settled
  /\ initPc = "validating"
  /\ IF validateToken(reply)
     THEN /\ ctxUser' = getCurrentUser(ls)
          /\ ctxLoading' = FALSE
          /\ initPc' = "done"
          /\ UNCHANGED <<ls, loginPc, loginType, loginTok, loginPre, path, locFrom, flight>>
          /\ Rerender
     ELSE IF LogoutReloads
     THEN /\ ls' = logout(ls)
          /\ PageLoad("/login")
          /\ UNCHANGED counters
     ELSE /\ ls' = logout(ls)
          /\ ctxLoading' = FALSE
          /\ initPc' = "done"
          /\ UNCHANGED <<ctxUser, loginPc, loginType, loginTok, loginPre, path, locFrom, flight>>
          /\ Rerender
  /\ UNCHANGED <<build, tab2, now>>

----------------------------------------------------------------------------
(* Login.handleSubmit -> AuthProvider.login -> authService.login *)

(* Account types of the form that reach login(): hcp and lab return early. *)
UserTypes == {"vendor", "customer"}

expectedRole(userType) ==
  IF userType = "vendor" THEN "vendor"
  ELSE IF userType = "customer" THEN "patient"
  ELSE ""

(* handleSubmit redirecting by the role alone, whatever type was selected. *)
LoginTarget_ByRoleOnly(userType, user) ==
  IF Role(user) = "vendor" THEN "/"
  ELSE IF Role(user) = "patient" THEN "external"
  ELSE "stay"

(* Where Login.handleSubmit goes once login() has returned userData. *)
LoginTarget(userType, user) ==
  IF Role(user) # expectedRole(userType) THEN "stay"
  ELSE IF Role(user) = "vendor" THEN "/"
  ELSE IF Role(user) = "patient" THEN "external"
  ELSE "stay"

(* Submit: setLoading(true) and the POST /token is sent. *)
LoginSubmit(userType) ==
  /\ Quiet
  /\ path = "/login"
  /\ loginPc = "idle"
  /\ loginPc' = "token"
  /\ loginType' = userType
  /\ ctxLoading' = TRUE
  /\ loginPre' = [ls |-> ls, user |-> ctxUser]
  /\ UNCHANGED <<build, tab2, now, ls, ctxUser, initPc, loginTok, path, locFrom,
                 flight>>
  /\ UserRerender

(* POST /token is rejected or fails: login() throws, finally               *)
(* setLoading(false).                                                       *)
LoginTokenFail ==
  /\ Settled
  /\ loginPc = "token"
  /\ loginPc' = "idle"
  /\ loginType' = "none"
  /\ ctxLoading' = FALSE
  /\ loginPre' = NoPre
  /\ UNCHANGED <<build, tab2, now, ls, ctxUser, initPc, loginTok, path, locFrom, flight>>
  /\ Rerender

(* A login that sends GET /users/me without having stored the token. *)
LoginTokenOk_NoStore(u) ==
  /\ Settled
  /\ loginPc = "token"
  /\ loginPc' = "profile"
  /\ loginTok' = Jwt(u, now + TokenTTL)
  /\ UNCHANGED loginPre
  /\ UNCHANGED <<build, tab2, now, ls, ctxUser, ctxLoading, initPc, loginType, path,
                 locFrom, flight, locals, counters>>

(* POST /token answers with a token for the account u: the token is stored *)
(* and GET /users/me is sent with it.                                       *)
LoginTokenOk(u) ==
  /\ Settled
  /\ loginPc = "token"
  /\ loginPc' = "profile"
  /\ loginTok' = Jwt(u, now + TokenTTL)
  /\ UNCHANGED loginPre
  /\ ls' = setItem(ls, TOKEN_KEY, Jwt(u, now + TokenTTL))
  /\ UNCHANGED <<build, tab2, now, ctxUser, ctxLoading, initPc, loginType, path,
                 locFrom, flight, locals, counters>>

(* Login.handleSubmit after login() returned the profile of `user`. *)
LoginNavigate(target) ==
  IF target = "stay"
  THEN UNCHANGED <<path, locFrom>>
  ELSE /\ path' = target
       /\ locFrom' = "null"

(* GET /users/me answers 2xx: the profile is stored, setUser, and          *)
(* handleSubmit validates the role and navigates; for a patient it sets     *)
(* window.location.href to the customer portal, which unloads the page.     *)
LoginProfileOk ==
  /\ Settled
  /\ loginPc = "profile"
  /\ ls' = setItem(ls, USER_KEY, loginTok.sub)
  /\ LET userInfo == IF build = "class" THEN loginTok.sub
                     ELSE getCurrentUser(ls')
     IN IF LoginTarget(loginType, userInfo) = "external"
        THEN /\ PageLoad("external")
             /\ UNCHANGED counters
        ELSE /\ ctxUser' = userInfo
             /\ ctxLoading' = FALSE
             /\ loginPc' = "idle"
             /\ loginType' = "none"
             /\ loginTok' = NoToken
             /\ loginPre' = NoPre
             /\ LoginNavigate(LoginTarget(loginType, userInfo))
             /\ UNCHANGED <<initPc, flight>>
             /\ Rerender
  /\ UNCHANGED <<build, tab2, now>>

(* GET /users/me fails (401, another status, or no answer). The class       *)
(* throws; fetchUserInfo of the object build logs out on a 401.             *)
LoginProfileFail(status) ==
  /\ Settled
  /\ loginPc = "profile"
  /\ IF build = "object" /\ status = "401"
     THEN /\ ls' = logout(ls)
          /\ PageLoad("/login")
          /\ UNCHANGED counters
     ELSE /\ ctxLoading' = FALSE
          /\ loginPc' = "idle"
          /\ loginType' = "none"
          /\ loginTok' = NoToken
          /\ loginPre' = NoPre
          /\ UNCHANGED <<ls, ctxUser, initPc, path, locFrom, flight>>
          /\ Rerender
  /\ UNCHANGED <<build, tab2, now>>

----------------------------------------------------------------------------
(* Header.handleLogout: AuthProvider.logout(), then navigate('/login'). *)
HeaderLogout ==
  /\ UserIdle
  /\ ShownNow \in ProtectedPaths
  /\ ls' = logout(ls)
  /\ IF LogoutReloads
     THEN /\ PageLoad("/login")
          /\ CountersFresh
     ELSE /\ ctxUser' = "null"
          /\ path' = "/login"
          /\ locFrom' = "null"
          /\ UNCHANGED <<ctxLoading, initPc, loginPc, loginType, loginTok, loginPre,
                         flight>>
          /\ UserRerender
  /\ UNCHANGED <<build, tab2, now>>

(* The user follows a link to p. *)
UserNavigate(p) ==
  /\ UserIdle
  /\ path \in Paths
  /\ p # path
  /\ path' = p
  /\ locFrom' = "null"
  /\ UNCHANGED <<build, tab2, now, ls, ctxUser, ctxLoading, initPc, loginPc,
                 loginType, loginTok, loginPre, flight>>
  /\ UserRerender

(* The user loads the application at p (address bar, reload). *)
Reload(p) ==
  /\ UserIdle
  /\ PageLoad(p)
  /\ CountersFresh
  /\ UNCHANGED <<build, tab2, now, ls>>

(* <Navigate to="/login" state={{ from: location }} replace /> and the     *)
(* same to /unauthorized, rendered by ProtectedRoute.                       *)
RouteRedirect ==
  /\ OutcomeNow \in {"login", "unauthorized"}
  /\ path' = IF OutcomeNow = "login" THEN "/login" ELSE "/unauthorized"
  /\ locFrom' = path
  /\ redirects' = IF OutcomeNow = "login" /\ redirects < MaxCount
                  THEN redirects + 1 ELSE redirects
  /\ UNCHANGED <<build, tab2, now, ls, ctxUser, ctxLoading, initPc, loginPc,
                 loginType, loginTok, loginPre, flight, logouts, saw401>>
  /\ RerenderLocals

----------------------------------------------------------------------------
(* Requests of the pages *)

(* dashboardApi calls of useDashboardData (answered through handleResponse) *)
ApiReqs == {"metrics", "insights", "recent"}

(* Dashboard's own fetches, MyProducts, Employees, PatientManagement *)
DashReqs == {"dashCustomers", "dashProducts"}

ReqIds == ApiReqs \cup DashReqs
            \cup {"dashValidate", "myProducts", "employees", "patients"}

Owner(r) ==
  IF r \in ApiReqs \cup DashReqs \cup {"dashValidate"} THEN "/"
  ELSE IF r = "myProducts" THEN "/products"
  ELSE IF r = "employees" THEN "/management/employees"
  ELSE "/management/patients"

(* Response statuses: 2xx, 401, another error status, no response. *)
Statuses == {"200", "401", "500", "net"}

Count(n) == IF n < MaxCount THEN n + 1 ELSE n

(* Dashboard.handleAuthError: the storage it leaves. *)
handleAuthError(store) ==
  removeItem(removeItem(store, "auth_token"), "user_info")

(* Employees.fetchEmployees on a 401: the storage it leaves. *)
fetchEmployees401(store) == removeItem(store, "auth_token")

(* Dashboard mounts: useDashboardData sends its three requests, and        *)
(* initDashboard checks the token and sends the validation request.         *)
DashboardMount ==
  /\ ShownNow = "/"
  /\ ~pageFx
  /\ IF getItem(ls, "auth_token") = NoToken
     THEN /\ flight' = flight \cup ApiReqs
          /\ path' = "/login"
          /\ locFrom' = "null"
          /\ redirects' = Count(redirects)
          /\ LocalsFresh
     ELSE /\ flight' = flight \cup ApiReqs \cup {"dashValidate"}
          /\ hdr' = getAuthHeaders(ls)
          /\ pageFx' = TRUE
          /\ UNCHANGED <<path, locFrom, redirects, pageErr,
                         permissions, permLoading, guard>>
  /\ UNCHANGED <<build, tab2, now, ls, ctxUser, ctxLoading, initPc, loginPc,
                 loginType, loginTok, loginPre, logouts, saw401>>

(* MyProducts mounts: fetchProducts. *)
MyProductsMount ==
  /\ ShownNow = "/products"
  /\ ~pageFx
  /\ pageFx' = TRUE
  /\ flight' = flight \cup {"myProducts"}
  /\ hdr' = getAuthHeaders(ls)
  /\ UNCHANGED <<build, tab2, now, ls, ctxUser, ctxLoading, initPc, loginPc,
                 loginType, loginTok, loginPre, path, locFrom,
                 counters, pageErr, permissions, permLoading, guard>>

(* PatientManagement mounts: fetchPatients throws without a token. *)
PatientsMount ==
  /\ ShownNow = "/management/patients"
  /\ ~pageFx
  /\ pageFx' = TRUE
  /\ IF getItem(ls, "auth_token") = NoToken
     THEN pageErr' = TRUE /\ UNCHANGED <<flight, hdr>>
     ELSE /\ flight' = flight \cup {"patients"}
          /\ hdr' = getAuthHeaders(ls)
          /\ UNCHANGED pageErr
  /\ UNCHANGED <<build, tab2, now, ls, ctxUser, ctxLoading, initPc, loginPc,
                 loginType, loginTok, loginPre, path, locFrom,
                 counters, permissions, permLoading, guard>>

(* Employees: fetchEmployees runs once permissionsLoading is false. *)
EmployeesFetch ==
  /\ ShownNow = "/management/employees"
  /\ ~permLoading
  /\ ~pageFx
  /\ pageFx' = TRUE
  /\ flight' = flight \cup {"employees"}
  /\ hdr' = getAuthHeaders(ls)
  /\ UNCHANGED <<build, tab2, now, ls, ctxUser, ctxLoading, initPc, loginPc,
                 loginType, loginTok, loginPre, path, locFrom,
                 counters, pageErr, permissions, permLoading, guard>>

----------------------------------------------------------------------------
(* Responses *)

LocalErr(r, e) ==
  /\ pageErr' = IF ShownNow = Owner(r) THEN e ELSE pageErr
  /\ UNCHANGED <<pageFx, permissions, permLoading, guard, hdr>>

(* navigate('/login') *)
NavigateLogin ==
  /\ path' = "/login"
  /\ locFrom' = "null"

(* handleResponse on the answer to a dashboardApi request; a rejection is  *)
(* caught by fetchData of useDashboardData, which sets its error.           *)
ApiReply(r, status) ==
  /\ Settled
  /\ r \in flight \cap ApiReqs
  /\ IF status = "401"
     THEN /\ ls' = logout(ls)
          /\ logouts' = Count(logouts)
          /\ saw401' = TRUE
          /\ IF LogoutReloads
             THEN /\ PageLoad("/login")
                  /\ redirects' = Count(redirects)
             ELSE /\ flight' = flight \ {r}
                  /\ LocalErr(r, TRUE)
                  /\ UNCHANGED <<ctxUser, ctxLoading, initPc, loginPc,
                                 loginType, loginTok, loginPre, path, locFrom, redirects>>
     ELSE /\ flight' = flight \ {r}
          /\ LocalErr(r, IF status = "200" THEN pageErr ELSE TRUE)
          /\ UNCHANGED <<ls, ctxUser, ctxLoading, initPc, loginPc, loginType,
                         loginTok, loginPre, path, locFrom,
                         counters>>
  /\ UNCHANGED <<build, tab2, now>>

(* Dashboard.handleAuthError with its navigate('/login'). *)
DashAuthError(r, status) ==
  /\ ls' = handleAuthError(ls)
  /\ NavigateLogin
  /\ logouts' = Count(logouts)
  /\ redirects' = Count(redirects)
  /\ saw401' = (saw401 \/ status = "401")
  /\ RerenderLocals

(* initDashboard resumes after validateToken(): the two fetches are sent   *)
(* on a 2xx, handleAuthError() runs on anything else.                       *)
DashValidateReply(status) ==
  /\ Settled
  /\ "dashValidate" \in flight
  /\ IF status = "200"
     THEN /\ flight' = (flight \ {"dashValidate"}) \cup DashReqs
          /\ hdr' = getAuthHeaders(ls)
          /\ UNCHANGED <<ls, path, locFrom, counters, pageFx, pageErr,
                         permissions, permLoading, guard>>
     ELSE /\ flight' = flight \ {"dashValidate"}
          /\ DashAuthError("dashValidate", status)
  /\ UNCHANGED <<build, tab2, now, ctxUser, ctxLoading, initPc, loginPc, loginType,
                 loginTok, loginPre>>

(* fetchRecentCustomers / fetchProducts of the Dashboard. *)
DashFetchReply(r, status) ==
  /\ Settled
  /\ r \in flight \cap DashReqs
  /\ flight' = flight \ {r}
  /\ IF status = "401"
     THEN DashAuthError(r, status)
     ELSE /\ LocalErr(r, IF status = "200" THEN pageErr ELSE TRUE)
          /\ UNCHANGED <<ls, path, locFrom, counters>>
  /\ UNCHANGED <<build, tab2, now, ctxUser, ctxLoading, initPc, loginPc, loginType,
                 loginTok, loginPre>>

(* MyProducts.fetchProducts: a 401 only sets the error text. *)
MyProductsReply(status) ==
  /\ Settled
  /\ "myProducts" \in flight
  /\ flight' = flight \ {"myProducts"}
  /\ LocalErr("myProducts", IF status = "200" THEN FALSE ELSE TRUE)
  /\ saw401' = (saw401 \/ status = "401")
  /\ UNCHANGED <<build, tab2, now, ls, ctxUser, ctxLoading, initPc, loginPc,
                 loginType, loginTok, loginPre, path, locFrom,
                 logouts, redirects>>

(* fetchEmployees treating every failure as it treats a 401. *)
EmployeesReply_FailureLogsOut(status) ==
  /\ Settled
  /\ "employees" \in flight
  /\ flight' = flight \ {"employees"}
  /\ IF status # "200"
     THEN /\ ls' = fetchEmployees401(ls)
          /\ NavigateLogin
          /\ logouts' = Count(logouts)
          /\ redirects' = Count(redirects)
          /\ saw401' = TRUE
          /\ RerenderLocals
     ELSE /\ LocalErr("employees", FALSE)
          /\ UNCHANGED <<ls, path, locFrom, counters>>
  /\ UNCHANGED <<build, tab2, now, ctxUser, ctxLoading, initPc, loginPc, loginType,
                 loginTok, loginPre>>

(* Employees.fetchEmployees: a 401 removes the token and navigates. *)
EmployeesReply(status) ==
  /\ Settled
  /\ "employees" \in flight
  /\ flight' = flight \ {"employees"}
  /\ IF status = "401"
     THEN /\ ls' = fetchEmployees401(ls)
          /\ NavigateLogin
          /\ logouts' = Count(logouts)
          /\ redirects' = Count(redirects)
          /\ saw401' = TRUE
          /\ RerenderLocals
     ELSE /\ LocalErr("employees", IF status = "200" THEN FALSE ELSE TRUE)
          /\ UNCHANGED <<ls, path, locFrom, counters>>
  /\ UNCHANGED <<build, tab2, now, ctxUser, ctxLoading, initPc, loginPc, loginType,
                 loginTok, loginPre>>

(* The detail text of an error response: it names the missing vendor      *)
(* profile, or it says something else.                                      *)
ErrorDetails == {"vendor", "other"}

(* PatientManagement.fetchPatients: a failure sets the error text, except  *)
(* an error response whose detail names the missing vendor profile, which   *)
(* shows the empty list.                                                    *)
PatientsReply(status, detail) ==
  /\ Settled
  /\ "patients" \in flight
  /\ flight' = flight \ {"patients"}
  /\ LocalErr("patients",
              IF status = "200" THEN FALSE
              ELSE IF status # "net" /\ detail = "vendor" THEN FALSE
              ELSE TRUE)
  /\ saw401' = (saw401 \/ status = "401")
  /\ UNCHANGED <<build, tab2, now, ls, ctxUser, ctxLoading, initPc, loginPc,
                 loginType, loginTok, loginPre, path, locFrom,
                 logouts, redirects>>

(* The Retry / Try Again button of a page in its error state calls the    *)
(* page's fetch again: handleRetry of the Dashboard, fetchProducts,         *)
(* fetchEmployees, fetchPatients.                                           *)
RetryShown == pageErr /\ ShownNow \in PagesWithEffects

Retry ==
  /\ UserIdle
  /\ RetryShown
  /\ IF ShownNow = "/management/patients" /\ getItem(ls, "auth_token") = NoToken
     THEN UNCHANGED <<flight, hdr, pageErr>>
     ELSE /\ flight' = (IF ShownNow = "/" THEN ApiReqs \cup DashReqs
                        ELSE IF ShownNow = "/products" THEN {"myProducts"}
                        ELSE IF ShownNow = "/management/employees"
                        THEN {"employees"}
                        ELSE {"patients"})
          /\ hdr' = getAuthHeaders(ls)
          /\ pageErr' = FALSE
  /\ CountersFresh
  /\ UNCHANGED <<build, tab2, now, ls, ctxUser, ctxLoading, initPc, loginPc,
                 loginType, loginTok, loginPre, path, locFrom,
                 pageFx, permissions, permLoading, guard>>

----------------------------------------------------------------------------
(* useEmployeePermissions *)

(* A vendor object that lacks can_delete_employees. *)
VendorPermissions_NoDelete ==
  PermObj("null", "vendor_admin", PermFlags \ {"can_delete_employees"})

(* The object the hook builds for a vendor admin. *)
VendorPermissions == PermObj("null", "vendor_admin", PermFlags)

(* JSON.parse of the stored string; "throws" for a string it rejects. *)
JSONparse(stored) == IF stored.kind = "bad" THEN "throws" ELSE "ok"

(* loadPermissions reading the cached object for every user that is not a  *)
(* vendor.                                                                  *)
loadPermissions_AnyUser(user, store, perms) ==
  IF user # "null" /\ Role(user) = "vendor"
  THEN PermObj("null", "vendor_admin", PermFlags)
  ELSE IF getItem(store, PERM_KEY).kind = "obj" THEN getItem(store, PERM_KEY)
  ELSE perms

(* loadPermissions: the value of `permissions` after the effect. *)
loadPermissions(user, store, perms) ==
  IF user # "null" /\ Role(user) = "employee"
  THEN LET storedPermissions == getItem(store, PERM_KEY) IN
         IF storedPermissions # NoPerms
         THEN IF JSONparse(storedPermissions) = "throws" THEN NoPerms
              ELSE storedPermissions
         ELSE perms
  ELSE IF user # "null" /\ Role(user) = "vendor" THEN VendorPermissions
  ELSE NoPerms

(* hasPermission answering true while no permission object is loaded. *)
hasPermission_FailOpen(perms, permissionName) ==
  IF perms = NoPerms THEN TRUE
  ELSE permissionName \in perms.granted

hasPermission(perms, permissionName) ==
  IF perms = NoPerms THEN FALSE
  ELSE permissionName \in perms.granted

isVendorAdmin(user) == Role(user) = "vendor"

isEmployee(user) == Role(user) = "employee"

(* getEmployeeRole reading user_type before employee_role. *)
getEmployeeRole_UserTypeFirst(user, perms) ==
  IF Role(user) = "vendor" THEN "admin"
  ELSE IF perms = NoPerms THEN "null"
  ELSE IF perms.user_type # "null" THEN perms.user_type
  ELSE perms.employee_role

getEmployeeRole(user, perms) ==
  IF isVendorAdmin(user) THEN "admin"
  ELSE IF perms = NoPerms THEN "null"
  ELSE IF perms.employee_role # "null" THEN perms.employee_role
  ELSE perms.user_type

(* canManageEmployees counting can_delete_employees as well. *)
canManageEmployees_WithDelete(perms) ==
  perms # NoPerms /\ perms.granted # {}

canManageEmployees(perms) ==
  \/ hasPermission(perms, "can_create_employees")
  \/ hasPermission(perms, "can_edit_employees")
  \/ hasPermission(perms, "can_deactivate_employees")

(* canEditContent admitting managers but not editors. *)
canEditContent_ManagerOnly(user, perms) ==
  \/ isVendorAdmin(user)
  \/ getEmployeeRole(user, perms) = "manager"

canEditContent(user, perms) ==
  \/ isVendorAdmin(user)
  \/ getEmployeeRole(user, perms) = "editor"
  \/ getEmployeeRole(user, perms) = "manager"

(* isViewerOnly counting a session without a sub-role as a viewer. *)
isViewerOnly_NoRoleIsViewer(user, perms) ==
  getEmployeeRole(user, perms) \in {"viewer", "null"}

isViewerOnly(user, perms) == getEmployeeRole(user, perms) = "viewer"

(* The hook has run its effect on the mounted Employees page, the state in *)
(* which the page and its PermissionGuards evaluate the checks.             *)
HookLoaded == ShownNow = "/management/employees" /\ ~permLoading

(* The effect of the hook, run after the Employees page has mounted. *)
LoadPermissions ==
  /\ ShownNow = "/management/employees"
  /\ permLoading
  /\ permissions' = loadPermissions(ctxUser, ls, permissions)
  /\ permLoading' = FALSE
  /\ UNCHANGED <<build, tab2, now, ls, ctxUser, ctxLoading, initPc, loginPc,
                 loginType, loginTok, loginPre, path, locFrom,
                 flight, counters, pageFx, pageErr, guard, hdr>>

----------------------------------------------------------------------------
(* PermissionGuard *)

(* PermissionGuard letting requireEdit take precedence over requireAdmin. *)
PermissionGuard_EditFirst(props, loading, user, perms) ==
  IF loading /\ props.showLoading THEN "dimmed"
  ELSE IF loading THEN "null"
  ELSE LET hasAccess ==
             IF props.requireEdit THEN canEditContent(user, perms)
             ELSE IF props.requireAdmin THEN isVendorAdmin(user)
             ELSE IF props.requireManageEmployees THEN canManageEmployees(perms)
             ELSE IF props.hideFromViewers THEN ~isViewerOnly(user, perms)
             ELSE IF props.permission # "null"
                  THEN hasPermission(perms, props.permission)
             ELSE TRUE
       IN IF hasAccess THEN "children"
          ELSE IF props.fallback THEN "fallback" ELSE "null"

(* PermissionGuard without the branch of the permission prop. *)
PermissionGuard_NoPermissionProp(props, loading, user, perms) ==
  IF loading /\ props.showLoading THEN "dimmed"
  ELSE IF loading THEN "null"
  ELSE LET hasAccess ==
             IF props.requireAdmin THEN isVendorAdmin(user)
             ELSE IF props.requireEdit THEN canEditContent(user, perms)
             ELSE IF props.requireManageEmployees THEN canManageEmployees(perms)
             ELSE IF props.hideFromViewers THEN ~isViewerOnly(user, perms)
             ELSE TRUE
       IN IF hasAccess THEN "children"
          ELSE IF props.fallback THEN "fallback" ELSE "null"

(* What the guard returns: "dimmed" (the children at half opacity), "null", *)
(* "children" or "fallback".                                                *)
PermissionGuard(props, loading, user, perms) ==
  IF loading /\ props.showLoading THEN "dimmed"
  ELSE IF loading THEN "null"
  ELSE LET hasAccess ==
             IF props.requireAdmin THEN isVendorAdmin(user)
             ELSE IF props.requireEdit THEN canEditContent(user, perms)
             ELSE IF props.requireManageEmployees THEN canManageEmployees(perms)
             ELSE IF props.hideFromViewers THEN ~isViewerOnly(user, perms)
             ELSE IF props.permission # "null"
                  THEN hasPermission(perms, props.permission)
             ELSE TRUE
       IN IF hasAccess THEN "children"
          ELSE IF props.fallback THEN "fallback" ELSE "null"

(* The Employees page, past its own loading gate, renders a guard: the     *)
(* guard's own hook instance starts with loading = true.                    *)
GuardMount(props) ==
  /\ HookLoaded
  /\ ~guard.mounted
  /\ guard' = [mounted |-> TRUE, props |-> props, loading |-> TRUE,
               permissions |-> NoPerms,
               out |-> PermissionGuard(props, TRUE, ctxUser, NoPerms)]
  /\ UNCHANGED <<build, tab2, now, ls, ctxUser, ctxLoading, initPc, loginPc,
                 loginType, loginTok, loginPre, path, locFrom, flight, counters,
                 pageFx, pageErr, permissions, permLoading, hdr>>

(* An effect of the guard that fetches the employees. *)
GuardEffect_Fetching ==
  /\ guard.mounted
  /\ guard.loading
  /\ guard' = [guard EXCEPT !.loading = FALSE]
  /\ flight' = flight \cup {"employees"}
  /\ UNCHANGED <<build, tab2, now, ls, ctxUser, ctxLoading, initPc, loginPc,
                 loginType, loginTok, loginPre, path, locFrom, counters,
                 pageFx, pageErr, permissions, permLoading, hdr>>

(* The effect of the guard's hook instance, and the render that follows. *)
GuardEffect ==
  /\ guard.mounted
  /\ guard.loading
  /\ LET perms == loadPermissions(ctxUser, ls, guard.permissions) IN
       guard' = [guard EXCEPT
                   !.loading = FALSE,
                   !.permissions = perms,
                   !.out = PermissionGuard(guard.props, FALSE, ctxUser, perms)]
  /\ UNCHANGED <<build, tab2, now, ls, ctxUser, ctxLoading, initPc, loginPc,
                 loginType, loginTok, loginPre, path, locFrom, flight, counters,
                 pageFx, pageErr, permissions, permLoading, hdr>>

----------------------------------------------------------------------------
Next ==
  \/ Tick
  \/ InitAuthStart
  \/ \E reply \in ValidateReplies : InitAuthValidated(reply)
  \/ \E t \in UserTypes : LoginSubmit(t)
  \/ LoginTokenFail
  \/ \E u \in Users : LoginTokenOk(u)
  \/ LoginProfileOk
  \/ \E st \in {"401", "500"} : LoginProfileFail(st)
  \/ HeaderLogout
  \/ \E p \in Paths : UserNavigate(p)
  \/ \E p \in Paths : Reload(p)
  \/ RouteRedirect
  \/ Retry
  \/ DashboardMount
  \/ MyProductsMount
  \/ PatientsMount
  \/ EmployeesFetch
  \/ LoadPermissions
  \/ \E props \in EmployeesGuards : GuardMount(props)
  \/ GuardEffect
  \/ \E r \in ApiReqs, st \in Statuses : ApiReply(r, st)
  \/ \E st \in Statuses : DashValidateReply(st)
  \/ \E r \in DashReqs, st \in Statuses : DashFetchReply(r, st)
  \/ \E st \in Statuses : MyProductsReply(st)
  \/ \E st \in Statuses : EmployeesReply(st)
  \/ \E st \in Statuses, detail \in ErrorDetails : PatientsReply(st, detail)

Spec == Init /\ [][Next]_vars

(* Steps the program takes by itself: effects and the handling of replies. *)
CodeStep ==
  \/ InitAuthStart
  \/ \E reply \in ValidateReplies : InitAuthValidated(reply)
  \/ LoginTokenFail
  \/ \E u \in Users : LoginTokenOk(u)
  \/ LoginProfileOk
  \/ \E st \in {"401", "500"} : LoginProfileFail(st)
  \/ RouteRedirect
  \/ DashboardMount
  \/ MyProductsMount
  \/ PatientsMount
  \/ EmployeesFetch
  \/ LoadPermissions
  \/ \E props \in EmployeesGuards : GuardMount(props)
  \/ GuardEffect
  \/ \E r \in ApiReqs, st \in Statuses : ApiReply(r, st)
  \/ \E st \in Statuses : DashValidateReply(st)
  \/ \E r \in DashReqs, st \in Statuses : DashFetchReply(r, st)
  \/ \E st \in Statuses : MyProductsReply(st)
  \/ \E st \in Statuses : EmployeesReply(st)
  \/ \E st \in Statuses, detail \in ErrorDetails : PatientsReply(st, detail)

(* Effects run and every request is answered or fails; the user may stop. *)
FairSpec == Spec /\ WF_vars(CodeStep)

(* The same, and the mount effect of the AuthProvider runs and the promise *)
(* of its validateToken() settles whatever else the application is doing:   *)
(* its continuation runs at one of the moments at which no effect is        *)
(* waiting to be flushed.                                                   *)
InitFairSpec ==
  /\ Spec
  /\ WF_vars(CodeStep)
  /\ WF_vars(InitAuthStart)
  /\ SF_vars(\E reply \in ValidateReplies : InitAuthValidated(reply))

----------------------------------------------------------------------------
(* The Employees page opened by a returning session: the storage holds the *)
(* token and the profile of an earlier login (or nothing) and any contents  *)
(* of employee_permissions.                                                 *)

Sessions == Users \cup {"null"}

StoredSession(u, perms) ==
  [k \in Keys |->
     IF k = PERM_KEY THEN perms
     ELSE IF u = "null" THEN NullOf(k)
     ELSE IF k = TOKEN_KEY THEN Jwt(u, TokenTTL)
     ELSE IF k = USER_KEY THEN u
     ELSE NullOf(k)]

InitPerm ==
  /\ build \in Builds
  /\ now = 0
  /\ ls \in {StoredSession(u, perms) :
               u \in Sessions, perms \in StoredPermissions}
  /\ ctxUser = "null"
  /\ ctxLoading = TRUE
  /\ initPc = "mount"
  /\ loginPc = "idle"
  /\ loginType = "none"
  /\ loginTok = NoToken
  /\ loginPre = NoPre
  /\ path = "/management/employees"
  /\ locFrom = "null"
  /\ flight = {}
  /\ logouts = 0
  /\ redirects = 0
  /\ saw401 = FALSE
  /\ pageFx = FALSE
  /\ pageErr = FALSE
  /\ permissions = NoPerms
  /\ permLoading = TRUE
  /\ guard = NoGuard
  /\ hdr = NoToken
  /\ tab2 = NoTab

NextPerm ==
  \/ Tick
  \/ InitAuthStart
  \/ \E reply \in ValidateReplies : InitAuthValidated(reply)
  \/ RouteRedirect
  \/ LoadPermissions
  \/ \E props \in EmployeesGuards : GuardMount(props)
  \/ GuardEffect
  \/ EmployeesFetch
  \/ \E st \in Statuses : EmployeesReply(st)
  \/ HeaderLogout
  \/ Reload("/management/employees")

PermSpec == InitPerm /\ [][NextPerm]_vars

----------------------------------------------------------------------------
(* Two tabs on /login share the storage; of the second tab the model keeps *)
(* authService.login, the part that writes the storage.                     *)

Tab2Frame ==
  UNCHANGED <<build, now, ctxUser, ctxLoading, initPc, loginPc, loginType,
              loginTok, loginPre, path, locFrom, flight, locals, counters>>

(* The second tab submits its login form: POST /token is sent. *)
Tab2LoginSubmit ==
  /\ tab2.pc = "idle"
  /\ tab2' = [tab2 EXCEPT !.pc = "token"]
  /\ UNCHANGED ls
  /\ Tab2Frame

(* POST /token is rejected or fails: login() throws. *)
Tab2TokenFail ==
  /\ tab2.pc = "token"
  /\ tab2' = [tab2 EXCEPT !.pc = "failed"]
  /\ UNCHANGED ls
  /\ Tab2Frame

(* POST /token answers for the account u: the token is stored and          *)
(* GET /users/me is sent with it.                                           *)
Tab2TokenOk(u) ==
  /\ tab2.pc = "token"
  /\ tab2' = [pc |-> "profile", tok |-> Jwt(u, now + TokenTTL)]
  /\ ls' = setItem(ls, TOKEN_KEY, Jwt(u, now + TokenTTL))
  /\ Tab2Frame

(* GET /users/me answers 2xx: the profile is stored. *)
Tab2ProfileOk ==
  /\ tab2.pc = "profile"
  /\ tab2' = [tab2 EXCEPT !.pc = "done"]
  /\ ls' = setItem(ls, USER_KEY, tab2.tok.sub)
  /\ Tab2Frame

(* GET /users/me fails: the class throws; fetchUserInfo of the object      *)
(* build logs out on a 401.                                                 *)
Tab2ProfileFail(status) ==
  /\ tab2.pc = "profile"
  /\ tab2' = [tab2 EXCEPT !.pc = "failed"]
  /\ ls' = IF build = "object" /\ status = "401" THEN logout(ls) ELSE ls
  /\ Tab2Frame

InitTabs ==
  /\ build \in Builds
  /\ now = 0
  /\ ls \in {StoredSession("null", perms) : perms \in SessionPermissions}
  /\ ctxUser = "null"
  /\ ctxLoading = TRUE
  /\ initPc = "mount"
  /\ loginPc = "idle"
  /\ loginType = "none"
  /\ loginTok = NoToken
  /\ loginPre = NoPre
  /\ path = "/login"
  /\ locFrom = "null"
  /\ flight = {}
  /\ logouts = 0
  /\ redirects = 0
  /\ saw401 = FALSE
  /\ pageFx = FALSE
  /\ pageErr = FALSE
  /\ permissions = NoPerms
  /\ permLoading = TRUE
  /\ guard = NoGuard
  /\ hdr = NoToken
  /\ tab2 = NoTab

NextTabs ==
  \/ InitAuthStart
  \/ \E reply \in ValidateReplies : InitAuthValidated(reply)
  \/ \E t \in UserTypes : LoginSubmit(t)
  \/ LoginTokenFail
  \/ \E u \in Users : LoginTokenOk(u)
  \/ LoginProfileOk
  \/ \E st \in {"401", "500"} : LoginProfileFail(st)
  \/ Tab2LoginSubmit
  \/ Tab2TokenFail
  \/ \E u \in Users : Tab2TokenOk(u)
  \/ Tab2ProfileOk
  \/ \E st \in {"401", "500"} : Tab2ProfileFail(st)

TabsSpec == InitTabs /\ [][NextTabs]_vars

----------------------------------------------------------------------------
(* A PermissionGuard with any props on the Employees page of a returning   *)
(* session.                                                                 *)

GuardConfigs ==
  {GuardProps(admin, edit, manage, hide, perm, fb, show) :
     admin \in BOOLEAN, edit \in BOOLEAN, manage \in BOOLEAN,
     hide \in BOOLEAN,
     perm \in {"null", "can_create_employees", "can_view_reports"},
     fb \in BOOLEAN, show \in BOOLEAN}

GuardPermissions ==
  {NoPerms, BadPerms,
   PermObj("viewer", "employee", {}),
   PermObj("editor", "employee", {"can_edit_employees"}),
   PermObj("manager", "employee", PermFlags)}

InitGuard ==
  /\ build \in Builds
  /\ now = 0
  /\ ls \in {StoredSession(u, perms) :
               u \in Sessions, perms \in GuardPermissions}
  /\ ctxUser = "null"
  /\ ctxLoading = TRUE
  /\ initPc = "mount"
  /\ loginPc = "idle"
  /\ loginType = "none"
  /\ loginTok = NoToken
  /\ loginPre = NoPre
  /\ path = "/management/employees"
  /\ locFrom = "null"
  /\ flight = {}
  /\ logouts = 0
  /\ redirects = 0
  /\ saw401 = FALSE
  /\ pageFx = FALSE
  /\ pageErr = FALSE
  /\ permissions = NoPerms
  /\ permLoading = TRUE
  /\ guard = NoGuard
  /\ hdr = NoToken
  /\ tab2 = NoTab

NextGuard ==
  \/ InitAuthStart
  \/ \E reply \in ValidateReplies : InitAuthValidated(reply)
  \/ RouteRedirect
  \/ LoadPermissions
  \/ \E props \in GuardConfigs : GuardMount(props)
  \/ GuardEffect
  \/ EmployeesFetch
  \/ \E st \in Statuses : EmployeesReply(st)
  \/ HeaderLogout
  \/ Reload("/management/employees")

GuardSpec == InitGuard /\ [][NextGuard]_vars

----------------------------------------------------------------------------
(* Properties *)

TokenStored == getToken(ls) # NoToken

(* C1: isAuthenticated() is true iff a token is stored and its embedded    *)
(* expiry has not passed; with a stored token whose expiry is in the past   *)
(* it is false and the stored token and profile are cleared. The only step  *)
(* of a freshly mounted AuthProvider is initializeAuth, which awaits        *)
(* validateToken exactly when isAuthenticated() returned true.              *)
C1_IsAuthenticatedChecksExpiry ==
  [][(initPc = "mount" /\ path # "external") =>
       /\ (initPc' = "validating") <=>
            (TokenStored /\ ~(getToken(ls).exp < now))
       /\ (TokenStored /\ getToken(ls).exp < now) =>
            (getToken(ls') = NoToken /\ getCurrentUser(ls') = "null")]_vars

(* C2: once every request of a page has been answered, a 401 among the     *)
(* answers has produced exactly one logout and one redirect to the login.   *)
C2_One401OneLogoutOneRedirect ==
  (Quiet /\ saw401) => (logouts = 1 /\ redirects = 1)

(* C3: for every combination of loading, user and requiredRole, and in    *)
(* every state of a protected path, ProtectedRoute yields the loading       *)
(* placeholder while loading, the redirect to /login without a session, the *)
(* redirect to /unauthorized for a session whose role differs from a given  *)
(* requiredRole, and the children otherwise; page state exists only under   *)
(* rendered children.                                                       *)
RequiredRoles == {"null", "vendor", "employee", "patient"}

OutcomeAsStated(o, loading, user, required) ==
  /\ (o = "loading") <=> loading
  /\ (o = "login") <=> (~loading /\ user = "null")
  /\ (o = "unauthorized") <=>
       (~loading /\ user # "null" /\ required # "null"
          /\ Role(user) # required)
  /\ (o = "children") <=>
       (~loading /\ user # "null"
          /\ (required = "null" \/ Role(user) = required))

C3_ProtectedRouteOutcome ==
  /\ \A loading \in BOOLEAN, user \in Sessions, required \in RequiredRoles :
       OutcomeAsStated(
         ProtectedRoute(loading, isAuthenticatedCtx(user), user, required),
         loading, user, required)
  /\ path \in ProtectedPaths =>
       /\ OutcomeAsStated(OutcomeNow, ctxLoading, ctxUser, RequiredRole(path))
       /\ (pageFx \/ ~permLoading) => OutcomeNow = "children"

(* C3 witness: a patient session on the route that requires vendor. *)
C3_Witness ==
  /\ path = "/analytics"
  /\ ~ctxLoading
  /\ ctxUser = "pat"
  /\ OutcomeNow = "unauthorized"

(* C4: the redirect to /login carries the requested location, and the next *)
(* successful vendor login navigates back to it.                            *)
C4_LoginReturnsToRequestedPath ==
  [][/\ (OutcomeNow = "login" /\ path' = "/login") => locFrom' = path
     /\ (/\ path = "/login"
         /\ locFrom # "null"
         /\ loginPc = "profile"
         /\ loginType = "vendor"
         /\ loginPc' = "idle"
         /\ ctxUser' # "null"
         /\ Role(ctxUser') = "vendor") => path' = locFrom]_vars

(* C5: a 401 handled for a page shown to an authenticated user leads to    *)
(* the unauthenticated state: no user in the context, no stored token, the  *)
(* login page. The obligation ends when the user acts again (saw401 is      *)
(* reset by every user action), so only the code's own steps can fail it.   *)
Unauthenticated ==
  ctxUser = "null" /\ ~TokenStored /\ path = "/login"

C5_401LeadsToUnauthenticated ==
  saw401 ~> (~saw401 \/ Unauthenticated)

(* The sub-role of the cached permission object: its employee_role, or    *)
(* its user_type when it has no employee_role.                              *)
CachedSubRole(store) ==
  LET stored == getItem(store, PERM_KEY) IN
    IF stored.kind # "obj" THEN "null"
    ELSE IF stored.employee_role # "null" THEN stored.employee_role
    ELSE stored.user_type

AllChecksFalse(user, perms) ==
  /\ ~isVendorAdmin(user)
  /\ ~isEmployee(user)
  /\ \A n \in PermNames : ~hasPermission(perms, n)
  /\ ~canEditContent(user, perms)
  /\ ~isViewerOnly(user, perms)
  /\ ~canManageEmployees(perms)

(* C6: for a vendor session hasPermission(name) is true for every name,    *)
(* also for a name outside the four employee-management flags, and          *)
(* isViewerOnly() is false.                                                 *)
C6_VendorHasEveryPermission ==
  (HookLoaded /\ Role(ctxUser) = "vendor") =>
     /\ \A n \in PermNames : hasPermission(permissions, n)
     /\ ~isViewerOnly(ctxUser, permissions)

(* C7: for an employee session whose cached sub-role is viewer,            *)
(* canEditContent() is false and isViewerOnly() is true.                    *)
C7_ViewerCannotEdit ==
  (HookLoaded /\ Role(ctxUser) = "employee" /\ CachedSubRole(ls) = "viewer") =>
     /\ ~canEditContent(ctxUser, permissions)
     /\ isViewerOnly(ctxUser, permissions)

(* C7 witness: a loaded employee session with a cached viewer object that  *)
(* carries every flag.                                                      *)
C7_Witness ==
  /\ HookLoaded
  /\ Role(ctxUser) = "employee"
  /\ getItem(ls, PERM_KEY) = PermObj("viewer", "employee", PermFlags)
  /\ isViewerOnly(ctxUser, permissions)

C9_OtherRolesFailClosed ==
  Role(ctxUser) \notin {"vendor", "employee"} =>
     AllChecksFalse(ctxUser, permissions)

(* C9 witness: a loaded patient session over a cached manager object with  *)
(* every flag.                                                              *)
C9_Witness ==
  /\ HookLoaded
  /\ Role(ctxUser) = "patient"
  /\ getItem(ls, PERM_KEY) = PermObj("manager", "employee", PermFlags)
  /\ AllChecksFalse(ctxUser, permissions)

(* C10: for an employee session hasPermission(name) is true only if the    *)
(* cached object exists, parses and maps name to true; it is false when the *)
(* object is missing, does not parse or lacks the key.                      *)
C10_EmployeePermissionFailsClosed ==
  Role(ctxUser) = "employee" =>
     \A n \in PermNames :
        hasPermission(permissions, n) =>
          /\ HookLoaded
          /\ getItem(ls, PERM_KEY).kind = "obj"
          /\ n \in getItem(ls, PERM_KEY).granted

(* C10 witness: a loaded employee session over a cached string that does   *)
(* not parse.                                                               *)
C10_Witness ==
  /\ HookLoaded
  /\ Role(ctxUser) = "employee"
  /\ getItem(ls, PERM_KEY) = BadPerms
  /\ \A n \in PermNames : ~hasPermission(permissions, n)

SessionPermissionData == loadPermissions(ctxUser, ls, NoPerms)

ConfiguredPredicate(props) ==
  LET perms == SessionPermissionData IN
    IF props.requireAdmin THEN Role(ctxUser) = "vendor"
    ELSE IF props.requireEdit THEN canEditContent(ctxUser, perms)
    ELSE IF props.requireManageEmployees THEN canManageEmployees(perms)
    ELSE IF props.hideFromViewers THEN ~isViewerOnly(ctxUser, perms)
    ELSE IF props.permission # "null"
         THEN hasPermission(perms, props.permission)
    ELSE TRUE

(* C12 as stated: in no render, the loading renders with showLoading       *)
(* included, does the guard output its children, dimmed or not, for a       *)
(* session for which the configured predicate is false.                     *)
C12_NeverChildrenWhenDenied ==
  (guard.mounted /\ ~ConfiguredPredicate(guard.props)) =>
     guard.out \notin {"children", "dimmed"}

(* C12 amended: for a session for which the configured predicate is false  *)
(* the guard never outputs its children undimmed, and outputs them dimmed   *)
(* only while its permission data is loading and showLoading is set; once   *)
(* loaded it outputs the children exactly when the predicate is true.       *)
C12_ChildrenOnlyDimmedWhileLoading ==
  guard.mounted =>
     /\ ~ConfiguredPredicate(guard.props) =>
          /\ guard.out # "children"
          /\ guard.out = "dimmed" =>
               (guard.loading /\ guard.props.showLoading)
     /\ ~guard.loading =>
          ((guard.out = "children") <=> ConfiguredPredicate(guard.props))

(* C12 witness: a viewer, a guard for can_create_employees with            *)
(* showLoading, still loading: the children are output dimmed.              *)
C12_Witness ==
  /\ guard.mounted
  /\ guard.loading
  /\ guard.props.showLoading
  /\ guard.props.permission = "can_create_employees"
  /\ Role(ctxUser) = "employee"
  /\ ~ConfiguredPredicate(guard.props)
  /\ guard.out = "dimmed"

(* C13: a render of a guard (its mount and the render after its hook's     *)
(* effect) starts no request and leaves the stored token, profile and       *)
(* permission object and the auth context as they were.                     *)
C13_GuardRenderHasNoSideEffect ==
  [][(guard' # guard /\ guard'.mounted) =>
       UNCHANGED <<ls, ctxUser, ctxLoading, flight>>]_vars

(* C13 witness: a guard of an employee session has loaded the cached       *)
(* object, which is still stored, and no request is in flight.              *)
C13_Witness ==
  /\ guard.mounted
  /\ ~guard.loading
  /\ Role(ctxUser) = "employee"
  /\ guard.permissions = PermObj("manager", "employee", PermFlags)
  /\ getItem(ls, PERM_KEY) = guard.permissions
  /\ TokenStored
  /\ flight = {}

(* What initializeAuth does with a validateToken() that returned false:    *)
(* the stored token and profile are cleared and it sets no user (the user   *)
(* of the context stays as it was, or is gone with a page load).            *)
ValidationFailed ==
  /\ getToken(ls') = NoToken
  /\ getCurrentUser(ls') = "null"
  /\ ctxUser' \in {"null", ctxUser}

LogoutCall ==
  \/ HeaderLogout
  \/ \E r \in ApiReqs : ApiReply(r, "401")
  \/ \E reply \in ValidateReplies :
       InitAuthValidated(reply) /\ ~validateToken(reply)
  \/ InitAuthStart /\ build = "object" /\ IsAuthExpiredBranch(ls, now)

Handles401 ==
  \/ \E r \in ApiReqs : ApiReply(r, "401")
  \/ DashValidateReply("401")
  \/ \E r \in DashReqs : DashFetchReply(r, "401")
  \/ MyProductsReply("401")
  \/ EmployeesReply("401")
  \/ \E detail \in ErrorDetails : PatientsReply("401", detail)

(* C16: after the logout of the header and after every handled 401 the     *)
(* token, the profile and the cached employee permission object are all     *)
(* absent from the storage.                                                 *)
C16_SessionClearedTogether ==
  [][(HeaderLogout \/ Handles401) =>
       /\ getToken(ls') = NoToken
       /\ getCurrentUser(ls') = "null"
       /\ getItem(ls', PERM_KEY) = NoPerms]_vars

(* C17: in a login flow the token is in the storage when the profile       *)
(* request is started, and the profile is in the storage when the auth      *)
(* context gets the user.                                                   *)
C17_LoginOrder ==
  [][/\ (loginPc # "profile" /\ loginPc' = "profile") =>
          (loginTok' # NoToken /\ getToken(ls') = loginTok')
     /\ (LoginProfileOk /\ ctxUser' # "null") =>
          (getCurrentUser(ls') = ctxUser' /\ ctxUser' = loginTok.sub)]_vars

(* C17 witness: the profile request of a login is under way: its token is  *)
(* stored, the profile is not yet, and the context has no user.             *)
C17_Witness ==
  /\ loginPc = "profile"
  /\ getToken(ls) = loginTok
  /\ getCurrentUser(ls) = "null"
  /\ ctxUser = "null"

(* C18: outside a login in progress the stored token and the stored        *)
(* profile are both present or both absent.                                 *)
C18_TokenAndProfileTogether ==
  loginPc = "idle" => (TokenStored <=> getCurrentUser(ls) # "null")

(* C19: when the later of two interleaved logins has stored its profile,   *)
(* the stored token and the stored profile belong to one and the same       *)
(* login.                                                                   *)
C19_OneLoginWins ==
  [][(/\ \/ LoginProfileOk /\ tab2.pc = "done"
         \/ tab2.pc = "profile" /\ tab2'.pc = "done"
              /\ loginPc = "idle" /\ ctxUser # "null"
      /\ getToken(ls') # NoToken) =>
       getToken(ls').sub = getCurrentUser(ls')]_vars

(* The data requests of the pages, and their answers that are failures     *)
(* other than a 401.                                                        *)
CrudReqs == ReqIds \ {"dashValidate"}

Failures == {"500", "net"}

CrudReply(r, status, detail) ==
  IF r \in ApiReqs THEN ApiReply(r, status)
  ELSE IF r \in DashReqs THEN DashFetchReply(r, status)
  ELSE IF r = "myProducts" THEN MyProductsReply(status)
  ELSE IF r = "employees" THEN EmployeesReply(status)
  ELSE PatientsReply(status, detail)

SessionKept ==
  /\ getItem(ls', TOKEN_KEY) = getItem(ls, TOKEN_KEY)
  /\ getItem(ls', USER_KEY) = getItem(ls, USER_KEY)
  /\ ctxUser' = ctxUser
  /\ path' = path

TokenFresh == getToken(ls) # NoToken /\ ~(getToken(ls).exp < now)

(* C21: a page load that finds the token and the profile of a login in the *)
(* store asks the backend to validate the token, and when the backend       *)
(* accepts it the context user is the stored profile and the store is       *)
(* untouched; the logout of the header removes the token and the profile,   *)
(* and a page load that finds no token ends with no user.                   *)
C21_ReloadKeepsSessionLogoutEndsIt ==
  [][/\ (InitAuthStart /\ TokenFresh) =>
          (initPc' = "validating" /\ ls' = ls)
     /\ (InitAuthValidated("valid") /\ getCurrentUser(ls) # "null") =>
          /\ ls' = ls
          /\ ctxUser' = getCurrentUser(ls)
          /\ isAuthenticatedCtx(ctxUser')
          /\ ~ctxLoading'
     /\ HeaderLogout =>
          (getToken(ls') = NoToken /\ getCurrentUser(ls') = "null")
     /\ (InitAuthStart /\ getToken(ls) = NoToken) =>
          (ls' = ls /\ ctxUser' = "null" /\ ~ctxLoading')]_vars

(* C21 witness: the page was reloaded while the token and the profile of a *)
(* login are stored, and the validation request is under way.               *)
C21_Witness ==
  /\ initPc = "validating"
  /\ loginPc = "idle"
  /\ ctxUser = "null"
  /\ TokenFresh
  /\ getCurrentUser(ls) # "null"

(* C22: when the login of an employee completes, the store holds under     *)
(* employee_permissions a permission object that names a sub-role, and it   *)
(* holds one whenever the permission hook loads for an employee.            *)
C22_EmployeeLoginStoresPermissions ==
  [][/\ (LoginProfileOk /\ ctxUser' # "null" /\ Role(ctxUser') = "employee") =>
          (/\ getItem(ls', PERM_KEY).kind = "obj"
           /\ CachedSubRole(ls') \in SubRoles)
     /\ (LoadPermissions /\ ctxUser # "null" /\ Role(ctxUser) = "employee") =>
          (/\ getItem(ls, PERM_KEY).kind = "obj"
           /\ CachedSubRole(ls) \in SubRoles)]_vars

(* An employee session over a cached object whose sub-role is editor. *)
EditorSession == Role(ctxUser) = "employee" /\ CachedSubRole(ls) = "editor"

(* The guard around the Delete Employee button is mounted. *)
DeleteGuard ==
  guard.mounted /\ guard.props.permission = "can_delete_employees"

ManageFlags == {"can_create_employees", "can_edit_employees",
                "can_deactivate_employees"}

(* The flags the cached object carries as true (none when it is absent or  *)
(* does not parse).                                                         *)
CachedFlags ==
  IF getItem(ls, PERM_KEY).kind = "obj" THEN getItem(ls, PERM_KEY).granted
  ELSE {}

DashboardData == ApiReqs \cup DashReqs

(* C25: mounting the Dashboard sends no data request, the data requests    *)
(* being sent when the validation request has answered 2xx; when the        *)
(* validation fails no data request is under way, the token and the profile *)
(* are removed and the route is /login.                                     *)
C25_ValidationBeforeData ==
  [][/\ DashboardMount => (flight' \ flight) \cap DashboardData = {}
     /\ \A st \in Statuses \ {"200"} :
          DashValidateReply(st) =>
            /\ flight' \cap DashboardData = {}
            /\ getToken(ls') = NoToken
            /\ getCurrentUser(ls') = "null"
            /\ path' = "/login"]_vars

(* C26: whenever the context reports an authenticated user and is not      *)
(* loading, a token is in the store.                                        *)
C26_AuthenticatedHasToken ==
  (isAuthenticatedCtx(ctxUser) /\ ~ctxLoading) => getToken(ls) # NoToken

(* A running login ends in failure. *)
LoginFails ==
  \/ LoginTokenFail
  \/ \E st \in {"401", "500"} : LoginProfileFail(st)

(* C27: when a login fails, at the token request or at the profile         *)
(* request, the stored token, the stored profile and the context user are   *)
(* what they were when the login was called.                                *)
C27_FailedLoginChangesNothing ==
  [][LoginFails =>
       /\ getToken(ls') = getToken(loginPre.ls)
       /\ getCurrentUser(ls') = getCurrentUser(loginPre.ls)
       /\ ctxUser' = loginPre.user]_vars

(* The login completes for an account whose role is not the one the        *)
(* selected account type expects.                                           *)
RoleMismatchLogin ==
  /\ LoginProfileOk
  /\ Role(loginTok.sub) # expectedRole(loginType)

(* C28: when the login completes with a role that does not match the       *)
(* selected account type, Login does not navigate and nothing is logged     *)
(* out: the token stays as stored, the profile is stored, the context is    *)
(* authenticated and not loading, and every protected route without a       *)
(* required role renders its content for that user.                         *)
C28_RoleMismatchKeepsSession ==
  [][RoleMismatchLogin =>
       /\ path' = path
       /\ getToken(ls') = getToken(ls)
       /\ getCurrentUser(ls') = loginTok.sub
       /\ ctxUser' = loginTok.sub
       /\ ~ctxLoading'
       /\ logouts' = logouts
       /\ \A p \in ProtectedPaths :
            RequiredRole(p) = "null" =>
              Outcome(p, ctxLoading', ctxUser') = "children"]_vars

(* C28 witness: an employee, whose role matches no account type of the     *)
(* form, is shown a protected page with its token and profile stored.       *)
C28_Witness ==
  /\ ShownNow = "/products"
  /\ ctxUser = "emp"
  /\ getToken(ls) # NoToken
  /\ getToken(ls).sub = "emp"
  /\ getCurrentUser(ls) = "emp"

(* The sub-role and the flags of the session: those of the cached object   *)
(* for an employee, every flag for a vendor, none for anyone else.          *)
SessionSubRole ==
  IF Role(ctxUser) = "employee" THEN CachedSubRole(ls) ELSE "null"

SessionFlags ==
  IF Role(ctxUser) = "employee" THEN CachedFlags
  ELSE IF Role(ctxUser) = "vendor" THEN PermFlags
  ELSE {}

(* What the first requirement prop that is set, in the order requireAdmin, *)
(* requireEdit, requireManageEmployees, hideFromViewers, permission, asks   *)
(* of the session.                                                          *)
FirstRequirement(props) ==
  IF props.requireAdmin THEN Role(ctxUser) = "vendor"
  ELSE IF props.requireEdit
       THEN Role(ctxUser) = "vendor" \/ SessionSubRole \in {"editor", "manager"}
  ELSE IF props.requireManageEmployees THEN SessionFlags \cap ManageFlags # {}
  ELSE IF props.hideFromViewers THEN SessionSubRole # "viewer"
  ELSE IF props.permission # "null" THEN props.permission \in SessionFlags
  ELSE TRUE

(* The guard asks nothing before hideFromViewers. *)
HideOrNothing(props) ==
  /\ ~props.requireAdmin
  /\ ~props.requireEdit
  /\ ~props.requireManageEmployees
  /\ props.hideFromViewers \/ props.permission = "null"

(* C29: a loaded guard renders its children exactly when the first         *)
(* requirement prop that is set holds of the session, the later ones not    *)
(* being looked at: with hideFromViewers first, for every session but an    *)
(* employee whose cached sub-role is viewer, a patient included; with no    *)
(* requirement prop, for every session; and the same guard rendered for no  *)
(* user renders its children in both of these cases.                        *)
C29_FirstRequirementDecides ==
  (guard.mounted /\ ~guard.loading) =>
     /\ (guard.out = "children") <=> FirstRequirement(guard.props)
     /\ HideOrNothing(guard.props) =>
          /\ (guard.out = "children") <=>
               ~(/\ guard.props.hideFromViewers
                 /\ Role(ctxUser) = "employee"
                 /\ CachedSubRole(ls) = "viewer")
          /\ PermissionGuard(guard.props, FALSE, "null",
                             loadPermissions("null", ls, NoPerms)) = "children"

(* C29 witness: a patient session over a cached viewer object, and a       *)
(* loaded guard with hideFromViewers and a permission it does not have:     *)
(* the children are rendered.                                               *)
C29_Witness ==
  /\ guard.mounted
  /\ ~guard.loading
  /\ HideOrNothing(guard.props)
  /\ guard.props.hideFromViewers
  /\ guard.props.permission = "can_create_employees"
  /\ Role(ctxUser) = "patient"
  /\ CachedSubRole(ls) = "viewer"
  /\ guard.out = "children"

(* initializeAuth has finished. *)
InitDone == initPc = "done" /\ ~ctxLoading

(* C30: initializeAuth, once the AuthProvider is mounted, comes to its end *)
(* with loading false (or the browser has left for the customer portal),    *)
(* whether no token is stored or the validation succeeds, fails or throws;  *)
(* the step that ends it sets loading false, and a protected route is then  *)
(* in one of its three outcomes.                                            *)
C30_InitializationTerminates ==
  /\ [][(initPc # "done" /\ initPc' = "done") => ~ctxLoading']_vars
  /\ [](InitDone /\ path \in ProtectedPaths =>
          OutcomeNow \in {"children", "login", "unauthorized"})
  /\ (initPc # "done") ~> (InitDone \/ path = "external")

(* C30 witness: initializeAuth has ended for an account that is not a      *)
(* vendor on the route that requires a vendor: the outcome is forbidden.    *)
C30_Witness ==
  /\ InitDone
  /\ ctxUser # "null"
  /\ path = "/analytics"
  /\ OutcomeNow = "unauthorized"

====
